---- MODULE Spec2Model ----
(***************************************************************************)
(* Trackman Iron Optimizer (src/app.py): the evaluation core of the        *)
(* dashboard -- smash factor, range classification, score, tier and        *)
(* recommendations -- as a state machine.                                  *)
(*                                                                         *)
(* Units.  Speeds (mph), carry (yards), angles (degrees) and spin (rpm)    *)
(* are integers of the source's units.  Smash factors are integers of      *)
(* thousandths (1.31 is 1310): calculate_smash_factor rounds to three      *)
(* decimals, and the table's smash bounds have at most three.  Lengths of  *)
(* CLUB_SPECS are hundredths of an inch (39.00 is 3900).                   *)
(***************************************************************************)
EXTENDS Integers, Sequences, FiniteSets

VARIABLES
    selected_club,      \* st.selectbox "Select Iron"
    club_speed,         \* st.number_input "Club Speed (mph)"
    ball_speed,         \* st.number_input "Ball Speed (mph)"
    carry_distance,     \* st.number_input "Carry Distance (yards)"
    launch_angle,       \* st.number_input "Launch Angle"
    spin_rate,          \* st.number_input "Spin Rate (RPM)"
    descent_angle,      \* st.number_input "Descent Angle"
    smash_factor,       \* main: smash_factor, thousandths
    checks,             \* main: the five statuses, in the order of the list
    success_count,      \* main: success_count
    optimization_score, \* main: optimization_score
    score_message,      \* main: score_message
    recommendations,    \* main: recommendations
    raised,             \* the exception that ended the run of main, or "none"
    call                \* a direct call of a helper: function, arguments, outcome

widgets == <<selected_club, club_speed, ball_speed, carry_distance,
             launch_angle, spin_rate, descent_angle>>
outputs == <<smash_factor, checks, success_count, optimization_score,
             score_message, recommendations, raised>>
vars == <<widgets, outputs, call>>

----------------------------------------------------------------------------
(* Configuration and constants.                                            *)

ClubOptions ==
    <<"3-iron", "4-iron", "5-iron", "6-iron", "7-iron", "8-iron", "9-iron", "PW">>

CLUB_SPECS ==
    [c \in {ClubOptions[i] : i \in 1..Len(ClubOptions)} |->
        CASE c = "3-iron" -> [loft |-> 21, length |-> 3900, swing_speed_range |-> <<90, 95>>]
          [] c = "4-iron" -> [loft |-> 24, length |-> 3850, swing_speed_range |-> <<87, 92>>]
          [] c = "5-iron" -> [loft |-> 27, length |-> 3800, swing_speed_range |-> <<84, 89>>]
          [] c = "6-iron" -> [loft |-> 31, length |-> 3750, swing_speed_range |-> <<81, 86>>]
          [] c = "7-iron" -> [loft |-> 35, length |-> 3700, swing_speed_range |-> <<78, 83>>]
          [] c = "8-iron" -> [loft |-> 39, length |-> 3650, swing_speed_range |-> <<75, 80>>]
          [] c = "9-iron" -> [loft |-> 43, length |-> 3600, swing_speed_range |-> <<72, 77>>]
          [] c = "PW"     -> [loft |-> 47, length |-> 3575, swing_speed_range |-> <<70, 75>>]]

\* Mutant of OPTIMAL_RANGES: the ends of a ball-speed range typed the wrong
\* way round (one entry for every club).
OPTIMAL_RANGES_ends_swapped ==
    [c \in {ClubOptions[i] : i \in 1..Len(ClubOptions)} |->
        [ball_speed |-> <<140, 125>>, launch_angle |-> <<12, 16>>,
         spin_rate |-> <<3000, 5000>>, smash_factor |-> <<1350, 1420>>,
         carry_distance |-> <<180, 210>>]]

OPTIMAL_RANGES ==
    [c \in {ClubOptions[i] : i \in 1..Len(ClubOptions)} |->
        CASE c = "3-iron" ->
               [ball_speed |-> <<125, 140>>, launch_angle |-> <<12, 16>>,
                spin_rate |-> <<3000, 5000>>, smash_factor |-> <<1350, 1420>>,
                carry_distance |-> <<180, 210>>]
          [] c = "4-iron" ->
               [ball_speed |-> <<120, 135>>, launch_angle |-> <<14, 18>>,
                spin_rate |-> <<3500, 5500>>, smash_factor |-> <<1340, 1410>>,
                carry_distance |-> <<170, 195>>]
          [] c = "5-iron" ->
               [ball_speed |-> <<115, 130>>, launch_angle |-> <<16, 20>>,
                spin_rate |-> <<3800, 5800>>, smash_factor |-> <<1330, 1400>>,
                carry_distance |-> <<160, 180>>]
          [] c = "6-iron" ->
               [ball_speed |-> <<110, 125>>, launch_angle |-> <<18, 22>>,
                spin_rate |-> <<4000, 6200>>, smash_factor |-> <<1320, 1390>>,
                carry_distance |-> <<150, 170>>]
          [] c = "7-iron" ->
               [ball_speed |-> <<105, 120>>, launch_angle |-> <<20, 24>>,
                spin_rate |-> <<4500, 6800>>, smash_factor |-> <<1310, 1380>>,
                carry_distance |-> <<140, 160>>]
          [] c = "8-iron" ->
               [ball_speed |-> <<100, 115>>, launch_angle |-> <<22, 26>>,
                spin_rate |-> <<5000, 7500>>, smash_factor |-> <<1300, 1370>>,
                carry_distance |-> <<125, 145>>]
          [] c = "9-iron" ->
               [ball_speed |-> <<95, 110>>, launch_angle |-> <<25, 29>>,
                spin_rate |-> <<5500, 8000>>, smash_factor |-> <<1290, 1360>>,
                carry_distance |-> <<110, 130>>]
          [] c = "PW" ->
               [ball_speed |-> <<90, 105>>, launch_angle |-> <<28, 33>>,
                spin_rate |-> <<6000, 8500>>, smash_factor |-> <<1280, 1350>>,
                carry_distance |-> <<95, 115>>]]

----------------------------------------------------------------------------
(* Helper functions.                                                       *)

\* The remainder of n * 2^k modulo d: the part of n/d that lies beyond the
\* first k binary digits after the point.
RECURSIVE ShiftRem(_, _, _)
ShiftRem(r, d, k) == IF k = 0 THEN r ELSE ShiftRem((2 * r) % d, d, k - 1)

\* The number of binary digits of a natural number.
RECURSIVE BitLen(_)
BitLen(i) == IF i = 0 THEN 0 ELSE 1 + BitLen(i \div 2)

\* For 0 < r < d: r shifted left until the next doubling yields the first 1 digit
\* of r/d.
RECURSIVE SkipZeros(_, _)
SkipZeros(r, d) == IF 2 * r >= d THEN r ELSE SkipZeros(2 * r, d)

\* ball_speed / club_speed in binary64 (n >= 0, d > 0 integers): how the
\* correctly rounded quotient, with its 53 significant digits, lies to the
\* exact one: -1 below it, 0 equal, 1 above it.  (No quotient of two operands
\* below 2^52 lies half way between two doubles.)
FloatDivSide(n, d) ==
    LET i    == n \div d
        r0   == n % d
        r53  == IF i > 0 THEN ShiftRem(r0, d, 53 - BitLen(i))
                ELSE IF r0 = 0 THEN 0
                ELSE ShiftRem(SkipZeros(r0, d), d, 53)
    IN  IF r53 = 0 THEN 0 ELSE IF 2 * r53 > d THEN 1 ELSE -1

\* Mutant of Round3: the quotient cut after three decimals instead of rounded.
Round3_truncated(n, d) == (1000 * n) \div d

\* round(n / d, 3) for n >= 0, d > 0, in thousandths: the decimal with three
\* places nearest to the double n / d; a double exactly half way goes to the
\* even neighbour.
Round3(n, d) ==
    LET q == (1000 * n) \div d
        r == (1000 * n) % d
    IN  IF 2 * r < d THEN q
        ELSE IF 2 * r > d THEN q + 1
        ELSE \* the exact quotient is half way: the double decides
             CASE FloatDivSide(n, d) = 1  -> q + 1
               [] FloatDivSide(n, d) = -1 -> q
               [] OTHER                   -> IF q % 2 = 0 THEN q ELSE q + 1

\* round(bs / cs, 3) for cs # 0, in thousandths; rounding is symmetric in
\* the sign.
RoundQuotient(bs, cs) ==
    LET n == IF bs >= 0 THEN bs ELSE 0 - bs
        d == IF cs >= 0 THEN cs ELSE 0 - cs
    IN  IF (bs >= 0) = (cs >= 0) THEN Round3(n, d) ELSE 0 - Round3(n, d)

\* How a call ends: with a value, or with an exception and no value.
Returned(v) == [raised |-> "none", ret |-> v]
Raised(e) == [raised |-> e]

\* Mutant of calculate_smash_factor: the guard catches negative club speeds
\* only, so a club speed of 0 reaches the division.
calculate_smash_factor_guard_negative(bs, cs) ==
    IF cs < 0 THEN Returned(0)
    ELSE IF cs = 0 THEN Raised("ZeroDivisionError")
    ELSE Returned(RoundQuotient(bs, cs))

calculate_smash_factor(bs, cs) ==
    IF cs <= 0 THEN Returned(0)
    ELSE IF cs = 0 THEN Raised("ZeroDivisionError")   \* float division by zero
    ELSE Returned(RoundQuotient(bs, cs))

\* Mutant of check_metric_status: the upper end of the range excluded.
check_metric_status_open_above(value, optimal_range) ==
    LET low  == optimal_range[1]
        high == optimal_range[2]
    IN  IF low <= value /\ value < high THEN "success"
        ELSE IF value < low THEN "warning_low"
        ELSE "warning_high"

check_metric_status(value, optimal_range) ==
    LET low  == optimal_range[1]
        high == optimal_range[2]
    IN  IF low <= value /\ value <= high THEN "success"
        ELSE IF value < low THEN "warning_low"
        ELSE "warning_high"

\* The records generate_recommendations appends, by rule.
LaunchTooLow ==
    [area |-> "Launch Angle", issue |-> "Too Low",
     fixes |-> <<"Increase angle of attack - swing more upward through impact",
                 "Move ball position slightly forward in your stance",
                 "Ensure proper weight transfer to front foot",
                 "Check for early extension causing low point behind">>]

LaunchTooHigh ==
    [area |-> "Launch Angle", issue |-> "Too High",
     fixes |-> <<"Decrease angle of attack - swing more downward",
                 "Move ball position slightly back in your stance",
                 "Reduce forward shaft lean at impact",
                 "Check for casting or early release">>]

SpinTooLow ==
    [area |-> "Spin Rate", issue |-> "Too Low",
     fixes |-> <<"Swing more downward for increased compression",
                 "Ensure crisp contact - avoid fat or thin shots",
                 "Increase dynamic loft at impact",
                 "Strike lower on the clubface for more spin">>]

SpinTooHigh ==
    [area |-> "Spin Rate", issue |-> "Too High",
     fixes |-> <<"Swing slightly more upward through impact",
                 "Reduce dynamic loft at impact",
                 "Strike higher on the clubface",
                 "Check for excessive hand action or flipping">>]

SmashTooLow ==
    [area |-> "Smash Factor", issue |-> "Too Low (Inefficient Energy Transfer)",
     fixes |-> <<"Focus on center face contact",
                 "Improve timing and swing sequence",
                 "Align club face properly at impact",
                 "Ensure proper ball position",
                 "Work on lag and release timing">>]

DistanceBelow ==
    [area |-> "Distance", issue |-> "Below Expected",
     fixes |-> <<"Review launch angle and spin rate optimization",
                 "Check swing speed matches club capability",
                 "Improve impact location (center face)",
                 "Focus on compression and solid contact">>]

DistanceAbove ==
    [area |-> "Distance", issue |-> "Above Expected",
     fixes |-> <<"Great compression and efficiency!",
                 "Verify measurements are accurate",
                 "Good trajectory optimization">>]

\* Mutant of LaunchRule: the direction compared the wrong way round.
LaunchRule_swapped(metrics, optimal) ==
    IF check_metric_status(metrics["launch_angle"], optimal.launch_angle) # "success"
    THEN IF metrics["launch_angle"] > optimal.launch_angle[1]
         THEN <<LaunchTooLow>> ELSE <<LaunchTooHigh>>
    ELSE <<>>

\* The launch-angle rule: what it appends to the list.
LaunchRule(metrics, optimal) ==
    IF check_metric_status(metrics["launch_angle"], optimal.launch_angle) # "success"
    THEN IF metrics["launch_angle"] < optimal.launch_angle[1]
         THEN <<LaunchTooLow>> ELSE <<LaunchTooHigh>>
    ELSE <<>>

\* Mutant of SpinRule: the else is missing, so a spin rate below the range
\* gets both records.
SpinRule_missing_else(metrics, optimal) ==
    IF check_metric_status(metrics["spin_rate"], optimal.spin_rate) # "success"
    THEN (IF metrics["spin_rate"] < optimal.spin_rate[1]
          THEN <<SpinTooLow>> ELSE <<>>) \o <<SpinTooHigh>>
    ELSE <<>>

\* The spin-rate rule.
SpinRule(metrics, optimal) ==
    IF check_metric_status(metrics["spin_rate"], optimal.spin_rate) # "success"
    THEN IF metrics["spin_rate"] < optimal.spin_rate[1]
         THEN <<SpinTooLow>> ELSE <<SpinTooHigh>>
    ELSE <<>>

\* Mutant of SmashRule: a rule like the others, with a record above the range too.
SmashRule_symmetric(metrics, optimal) ==
    IF check_metric_status(metrics["smash_factor"], optimal.smash_factor) # "success"
    THEN <<SmashTooLow>> ELSE <<>>

\* The smash-factor rule: a bare comparison with the lower bound.
SmashRule(metrics, optimal) ==
    IF metrics["smash_factor"] < optimal.smash_factor[1]
    THEN <<SmashTooLow>> ELSE <<>>

\* Mutant of DistanceRule: the value is checked whenever the key is present.
DistanceRule_any_value(metrics, optimal) ==
    IF "carry_distance" \in DOMAIN metrics
    THEN IF check_metric_status(metrics["carry_distance"], optimal.carry_distance) # "success"
         THEN IF metrics["carry_distance"] < optimal.carry_distance[1]
              THEN <<DistanceBelow>> ELSE <<DistanceAbove>>
         ELSE <<>>
    ELSE <<>>

\* The distance rule, guarded by the key's presence and a positive value.
DistanceRule(metrics, optimal) ==
    IF "carry_distance" \in DOMAIN metrics /\ metrics["carry_distance"] > 0
    THEN IF check_metric_status(metrics["carry_distance"], optimal.carry_distance) # "success"
         THEN IF metrics["carry_distance"] < optimal.carry_distance[1]
              THEN <<DistanceBelow>> ELSE <<DistanceAbove>>
         ELSE <<>>
    ELSE <<>>

\* Mutant of RuleChain: the smash-factor rule evaluated first.
RuleChain_smash_first(metrics, optimal) ==
    SmashRule(metrics, optimal) \o LaunchRule(metrics, optimal)
      \o SpinRule(metrics, optimal) \o DistanceRule(metrics, optimal)

\* The list starts empty and the four rules append to it in turn.
RuleChain(metrics, optimal) ==
    LaunchRule(metrics, optimal) \o SpinRule(metrics, optimal)
      \o SmashRule(metrics, optimal) \o DistanceRule(metrics, optimal)

\* Mutant of generate_recommendations: a club that is no key falls back to
\* the 7-iron's ranges.
generate_recommendations_default_club(club, metrics) ==
    IF club \notin DOMAIN OPTIMAL_RANGES
    THEN Returned(RuleChain(metrics, OPTIMAL_RANGES["7-iron"]))
    ELSE Returned(RuleChain(metrics, OPTIMAL_RANGES[club]))

\* OPTIMAL_RANGES[club] raises KeyError for a club that is no key.
generate_recommendations(club, metrics) ==
    IF club \notin DOMAIN OPTIMAL_RANGES THEN Raised("KeyError")
    ELSE Returned(RuleChain(metrics, OPTIMAL_RANGES[club]))

\* display_club_info(club): CLUB_SPECS[club] raises KeyError for a club that
\* is no key; otherwise the specs are shown.
display_club_info(club) ==
    IF club \notin DOMAIN CLUB_SPECS THEN Raised("KeyError")
    ELSE Returned(CLUB_SPECS[club])

\* display_optimal_ranges(club): OPTIMAL_RANGES[club] raises KeyError for a
\* club that is no key; otherwise the ranges are shown.
display_optimal_ranges(club) ==
    IF club \notin DOMAIN OPTIMAL_RANGES THEN Raised("KeyError")
    ELSE Returned(OPTIMAL_RANGES[club])

----------------------------------------------------------------------------
(* main: one run of the script over the widgets' values.                   *)

total_checks == 5

\* The metrics dictionary main stores.
Metrics(cs, bs, sf, la, sr, cd, da) ==
    [club_speed |-> cs, ball_speed |-> bs, smash_factor |-> sf,
     launch_angle |-> la, spin_rate |-> sr, carry_distance |-> cd,
     descent_angle |-> da]

\* Mutant of Checks: the descent angle checked in the launch angle's place.
Checks_descent_for_launch(metrics, optimal) ==
    << check_metric_status(metrics["ball_speed"], optimal.ball_speed),
       check_metric_status(metrics["descent_angle"], optimal.launch_angle),
       check_metric_status(metrics["spin_rate"], optimal.spin_rate),
       check_metric_status(metrics["smash_factor"], optimal.smash_factor),
       check_metric_status(metrics["carry_distance"], optimal.carry_distance) >>

\* The list `checks` of main, as statuses.
Checks(metrics, optimal) ==
    << check_metric_status(metrics["ball_speed"], optimal.ball_speed),
       check_metric_status(metrics["launch_angle"], optimal.launch_angle),
       check_metric_status(metrics["spin_rate"], optimal.spin_rate),
       check_metric_status(metrics["smash_factor"], optimal.smash_factor),
       check_metric_status(metrics["carry_distance"], optimal.carry_distance) >>

\* Mutant of CountSuccess: the comparison negated, so failures are counted.
RECURSIVE CountSuccess_counts_failures(_)
CountSuccess_counts_failures(cks) ==
    IF cks = <<>> THEN 0
    ELSE (IF Head(cks) # "success" THEN 1 ELSE 0)
           + CountSuccess_counts_failures(Tail(cks))

\* Mutant of CountSuccess: the loop stops one check short.
RECURSIVE CountSuccess_one_short(_)
CountSuccess_one_short(cks) ==
    IF Len(cks) <= 1 THEN 0
    ELSE (IF Head(cks) = "success" THEN 1 ELSE 0) + CountSuccess_one_short(Tail(cks))

\* The loop counting the checks whose status is 'success'.
RECURSIVE CountSuccess(_)
CountSuccess(cks) ==
    IF cks = <<>> THEN 0
    ELSE (IF Head(cks) = "success" THEN 1 ELSE 0) + CountSuccess(Tail(cks))

\* Mutant of OptimizationScore: the quotient taken as a floor division.
OptimizationScore_floor_division(sc) == (sc \div total_checks) * 100

\* (success_count / total_checks) * 100.  In binary64 the six quotients
\* 0/5 .. 5/5 times 100 are exactly 0.0, 20.0, 40.0, 60.0, 80.0, 100.0.
OptimizationScore(sc) == (sc * 100) \div total_checks

\* Mutant of ScoreMessage: the bands exclude their lower ends.
ScoreMessage_exclusive(score) ==
    IF score > 80 THEN "Excellent!"
    ELSE IF score > 60 THEN "Good"
    ELSE "Needs Work"

\* The tier chain of main.
ScoreMessage(score) ==
    IF score >= 80 THEN "Excellent!"
    ELSE IF score >= 60 THEN "Good"
    ELSE "Needs Work"

\* What one run of main computes from the widgets' values: the outputs, or
\* the exception that ends the run (display_club_info and display_optimal_ranges
\* look the club up before the analysis does).
MainOutputs(club, cs, bs, cd, la, sr, da) ==
    IF club \notin DOMAIN CLUB_SPECS THEN Raised("KeyError")
    ELSE LET sfo == calculate_smash_factor(bs, cs)
         IN  IF sfo.raised # "none" THEN Raised(sfo.raised)
             ELSE IF club \notin DOMAIN OPTIMAL_RANGES THEN Raised("KeyError")
             ELSE LET metrics == Metrics(cs, bs, sfo.ret, la, sr, cd, da)
                      optimal == OPTIMAL_RANGES[club]
                      cks     == Checks(metrics, optimal)
                      sc      == CountSuccess(cks)
                      score   == OptimizationScore(sc)
                      recs    == generate_recommendations(club, metrics)
                  IN  IF recs.raised # "none" THEN Raised(recs.raised)
                      ELSE Returned([smash_factor |-> sfo.ret, checks |-> cks,
                                     success_count |-> sc,
                                     optimization_score |-> score,
                                     score_message |-> ScoreMessage(score),
                                     recommendations |-> recs.ret])

----------------------------------------------------------------------------
(* The dashboard: the widgets keep their values between runs; changing one *)
(* reruns main over all of them.                                           *)

\* The arguments of the number inputs and of the selectbox.
club_speed_input     == [min_value |-> 0, max_value |-> 150,   value |-> 80]
ball_speed_input     == [min_value |-> 0, max_value |-> 200,   value |-> 105]
carry_distance_input == [min_value |-> 0, max_value |-> 300,   value |-> 150]
launch_angle_input   == [min_value |-> 0, max_value |-> 50,    value |-> 22]
spin_rate_input      == [min_value |-> 0, max_value |-> 15000, value |-> 5500]
descent_angle_input  == [min_value |-> 0, max_value |-> 80,    value |-> 45]
selectbox_index      == 4

\* The values tried in a number input: its default, and GridSteps equal steps
\* from its minimum to its maximum.
GridSteps == 1

Tried(w) ==
    {w.value} \cup
    {w.min_value + (k * (w.max_value - w.min_value)) \div GridSteps : k \in 0..GridSteps}

\* The value of the outputs of a run that an exception ended.
None == "None"

\* The state a run of main leaves behind.
Shown(club, cs, bs, cd, la, sr, da, o) ==
    /\ selected_club = club /\ club_speed = cs /\ ball_speed = bs
    /\ carry_distance = cd /\ launch_angle = la /\ spin_rate = sr
    /\ descent_angle = da
    /\ raised = o.raised
    /\ IF o.raised = "none"
       THEN /\ smash_factor = o.ret.smash_factor
            /\ checks = o.ret.checks
            /\ success_count = o.ret.success_count
            /\ optimization_score = o.ret.optimization_score
            /\ score_message = o.ret.score_message
            /\ recommendations = o.ret.recommendations
       ELSE /\ smash_factor = None /\ checks = None /\ success_count = None
            /\ optimization_score = None /\ score_message = None
            /\ recommendations = None

NoCall == [fn |-> "none"]

Init ==
    LET club == ClubOptions[selectbox_index + 1]
        cs == club_speed_input.value
        bs == ball_speed_input.value
        cd == carry_distance_input.value
        la == launch_angle_input.value
        sr == spin_rate_input.value
        da == descent_angle_input.value
    IN  /\ Shown(club, cs, bs, cd, la, sr, da, MainOutputs(club, cs, bs, cd, la, sr, da))
        /\ call = NoCall

\* main, rerun over the widgets' new values.  (The outputs are computed once
\* and then stored.)
main(club, cs, bs, cd, la, sr, da) ==
    \E o \in {MainOutputs(club, cs, bs, cd, la, sr, da)} :
        /\ selected_club' = club /\ club_speed' = cs /\ ball_speed' = bs
        /\ carry_distance' = cd /\ launch_angle' = la /\ spin_rate' = sr
        /\ descent_angle' = da
        /\ raised' = o.raised
        /\ IF o.raised = "none"
           THEN /\ smash_factor' = o.ret.smash_factor
                /\ checks' = o.ret.checks
                /\ success_count' = o.ret.success_count
                /\ optimization_score' = o.ret.optimization_score
                /\ score_message' = o.ret.score_message
                /\ recommendations' = o.ret.recommendations
           ELSE /\ smash_factor' = None /\ checks' = None /\ success_count' = None
                /\ optimization_score' = None /\ score_message' = None
                /\ recommendations' = None
        /\ UNCHANGED call

SelectClub ==
    \E i \in 1..Len(ClubOptions) :
        /\ ClubOptions[i] # selected_club
        /\ main(ClubOptions[i], club_speed, ball_speed, carry_distance,
                launch_angle, spin_rate, descent_angle)

SetClubSpeed ==
    \E v \in Tried(club_speed_input) :
        /\ v # club_speed
        /\ main(selected_club, v, ball_speed, carry_distance,
                launch_angle, spin_rate, descent_angle)

SetBallSpeed ==
    \E v \in Tried(ball_speed_input) :
        /\ v # ball_speed
        /\ main(selected_club, club_speed, v, carry_distance,
                launch_angle, spin_rate, descent_angle)

SetCarryDistance ==
    \E v \in Tried(carry_distance_input) :
        /\ v # carry_distance
        /\ main(selected_club, club_speed, ball_speed, v,
                launch_angle, spin_rate, descent_angle)

SetLaunchAngle ==
    \E v \in Tried(launch_angle_input) :
        /\ v # launch_angle
        /\ main(selected_club, club_speed, ball_speed, carry_distance,
                v, spin_rate, descent_angle)

SetSpinRate ==
    \E v \in Tried(spin_rate_input) :
        /\ v # spin_rate
        /\ main(selected_club, club_speed, ball_speed, carry_distance,
                launch_angle, v, descent_angle)

SetDescentAngle ==
    \E v \in Tried(descent_angle_input) :
        /\ v # descent_angle
        /\ main(selected_club, club_speed, ball_speed, carry_distance,
                launch_angle, spin_rate, v)

Next ==
    \/ SelectClub
    \/ SetClubSpeed
    \/ SetBallSpeed
    \/ SetCarryDistance
    \/ SetLaunchAngle
    \/ SetSpinRate
    \/ SetDescentAngle

Spec == Init /\ [][Next]_vars

----------------------------------------------------------------------------
(* The helpers called directly, over arguments wider than the widgets      *)
(* allow: a call is made, its outcome recorded, and the caller returns.    *)

\* The bound on the speeds tried in direct calls of calculate_smash_factor.
MaxSpeedArg == 16

\* How far around a range's two ends the values of direct calls are taken.
Margin == 2

SpeedArgs ==
    ((0 - MaxSpeedArg)..MaxSpeedArg)
      \cup Tried(club_speed_input) \cup Tried(ball_speed_input) \cup {83, 112}

Near(range) ==
    ((range[1] - Margin)..(range[1] + Margin))
      \cup ((range[2] - Margin)..(range[2] + Margin))

Edges(range) == {range[1] - 1, range[1], range[2], range[2] + 1}

MetricNames ==
    {"ball_speed", "launch_angle", "spin_rate", "smash_factor", "carry_distance"}

\* Clubs asked for in direct calls: the keys of the tables and one that is none.
ClubArgs == DOMAIN OPTIMAL_RANGES \cup {"2-iron"}

\* The ranges to try for a club: its own, or the default club's for no key.
RangesFor(club) ==
    IF club \in DOMAIN OPTIMAL_RANGES THEN OPTIMAL_RANGES[club]
    ELSE OPTIMAL_RANGES[ClubOptions[selectbox_index + 1]]

\* The metrics dictionaries passed to generate_recommendations: with the
\* carry distance, or without the key.
WithCarry(la, sr, sf, cd) ==
    [launch_angle |-> la, spin_rate |-> sr, smash_factor |-> sf, carry_distance |-> cd]
WithoutCarry(la, sr, sf) ==
    [launch_angle |-> la, spin_rate |-> sr, smash_factor |-> sf]

CallSmashFactor ==
    /\ call = NoCall
    /\ \E bs \in SpeedArgs, cs \in SpeedArgs :
         \E o \in {calculate_smash_factor(bs, cs)} :
            call' = [fn |-> "calculate_smash_factor", args |-> <<bs, cs>>, out |-> o]
    /\ UNCHANGED <<widgets, outputs>>

CallCheckMetricStatus ==
    /\ call = NoCall
    /\ \E club \in DOMAIN OPTIMAL_RANGES, m \in MetricNames :
         \E value \in Near(OPTIMAL_RANGES[club][m]) \cup {0 - 1, 0} :
            call' = [fn |-> "check_metric_status",
                     args |-> <<value, OPTIMAL_RANGES[club][m]>>,
                     out |-> Returned(check_metric_status(value, OPTIMAL_RANGES[club][m]))]
    /\ UNCHANGED <<widgets, outputs>>

CallGenerateRecommendations ==
    /\ call = NoCall
    /\ \E club \in ClubArgs :
         \E la \in Near(RangesFor(club).launch_angle),
            sr \in Near(RangesFor(club).spin_rate),
            sf \in Edges(RangesFor(club).smash_factor),
            cd \in Near(RangesFor(club).carry_distance) \cup {0 - 1, 0, 1} :
              \E metrics \in {WithCarry(la, sr, sf, cd), WithoutCarry(la, sr, sf)} :
                \E o \in {generate_recommendations(club, metrics)} :
                   call' = [fn |-> "generate_recommendations",
                            args |-> <<club, metrics>>, out |-> o]
    /\ UNCHANGED <<widgets, outputs>>

\* How far beyond a widget's maximum the values of direct evaluations go.
OutOfBandFactor == 10

\* The values an evaluation is tried with: below the widget's minimum, the
\* minimum, the default and far above the maximum.
Banded(w) ==
    {w.min_value - 1, w.min_value, w.value, w.max_value * OutOfBandFactor}

CallDisplayClubInfo ==
    /\ call = NoCall
    /\ \E club \in ClubArgs :
         call' = [fn |-> "display_club_info", args |-> <<club>>,
                  out |-> display_club_info(club)]
    /\ UNCHANGED <<widgets, outputs>>

CallDisplayOptimalRanges ==
    /\ call = NoCall
    /\ \E club \in ClubArgs :
         call' = [fn |-> "display_optimal_ranges", args |-> <<club>>,
                  out |-> display_optimal_ranges(club)]
    /\ UNCHANGED <<widgets, outputs>>

\* The body of main evaluated over given values instead of the widgets'.
CallMain ==
    /\ call = NoCall
    /\ \E club \in ClubArgs :
         \E cs \in Banded(club_speed_input) \cup {83},
            bs \in Banded(ball_speed_input) \cup {112},
            cd \in Banded(carry_distance_input),
            la \in Banded(launch_angle_input),
            sr \in Banded(spin_rate_input),
            da \in Banded(descent_angle_input) :
              \E o \in {MainOutputs(club, cs, bs, cd, la, sr, da)} :
                 call' = [fn |-> "main",
                          args |-> <<club, cs, bs, cd, la, sr, da>>, out |-> o]
    /\ UNCHANGED <<widgets, outputs>>

Return ==
    /\ call # NoCall
    /\ call' = NoCall
    /\ UNCHANGED <<widgets, outputs>>

NextCalls ==
    \/ CallSmashFactor
    \/ CallCheckMetricStatus
    \/ CallGenerateRecommendations
    \/ CallDisplayClubInfo
    \/ CallDisplayOptimalRanges
    \/ CallMain
    \/ Return

SpecCalls == Init /\ [][NextCalls]_vars

----------------------------------------------------------------------------
(* Properties of the dashboard (Spec).                                     *)

\* The value main checks for a metric, and whether it lies in the selected
\* club's range, both ends included.
ShownValue(m) ==
    CASE m = "ball_speed"     -> ball_speed
      [] m = "launch_angle"   -> launch_angle
      [] m = "spin_rate"      -> spin_rate
      [] m = "smash_factor"   -> smash_factor
      [] m = "carry_distance" -> carry_distance

InRange(m) ==
    /\ OPTIMAL_RANGES[selected_club][m][1] <= ShownValue(m)
    /\ ShownValue(m) <= OPTIMAL_RANGES[selected_club][m][2]

WithinCount == Cardinality({m \in MetricNames : InRange(m)})

\* C1: the recommendation list of a run is empty if and only if all five
\* checked metrics have the status 'success'.
C1_EmptyIffAllWithin ==
    raised = "none" =>
        ((Len(recommendations) = 0) <=> (\A i \in 1..5 : checks[i] = "success"))

\* C3: the score is the number of the five metrics within their range, over
\* five, times 100: one of 0, 20, 40, 60, 80, 100.
C3_ScoreIsFifths ==
    raised = "none" =>
        /\ optimization_score * 5 = 100 * WithinCount
        /\ optimization_score \in {0, 20, 40, 60, 80, 100}

C3_Witness ==
    /\ raised = "none"
    /\ optimization_score = 40
    /\ InRange("launch_angle") /\ InRange("carry_distance")
    /\ ~InRange("ball_speed") /\ ~InRange("spin_rate") /\ ~InRange("smash_factor")

\* C4: the tier is decided by the score alone, each band including its lower
\* end: 80 and more is "Excellent!", 60 up to 80 is "Good", less is "Needs Work".
C4_TierBands ==
    raised = "none" =>
        /\ (score_message = "Excellent!") <=> (optimization_score >= 80)
        /\ (score_message = "Good") <=>
               (60 <= optimization_score /\ optimization_score < 80)
        /\ (score_message = "Needs Work") <=> (optimization_score < 60)

C4_Witness ==
    /\ raised = "none"
    /\ optimization_score = 60
    /\ score_message = "Good"

C4_WitnessEighty ==
    /\ raised = "none"
    /\ optimization_score = 80
    /\ score_message = "Excellent!"

----------------------------------------------------------------------------
(* Properties of the helpers (SpecCalls).                                  *)

Statuses == {"success", "warning_low", "warning_high"}

\* C2: check_metric_status ends with exactly one of three statuses and with
\* no error: 'success' iff low <= value <= high, 'warning_low' iff
\* value < low, 'warning_high' iff value > high.
C2_StatusPartition ==
    call.fn = "check_metric_status" =>
        LET value == call.args[1]
            low   == call.args[2][1]
            high  == call.args[2][2]
        IN  /\ call.out.raised = "none"
            /\ call.out.ret \in Statuses
            /\ (call.out.ret = "success") <=> (low <= value /\ value <= high)
            /\ (call.out.ret = "warning_low") <=> (value < low)
            /\ (call.out.ret = "warning_high") <=> (value > high)

\* A value on the upper end of its range, classified 'success'.
C2_Witness ==
    /\ call.fn = "check_metric_status"
    /\ call.args[1] = call.args[2][2]
    /\ call.args[1] > call.args[2][1]
    /\ call.out.ret = "success"

\* A call of generate_recommendations that returned; its parts.
Generated == call.fn = "generate_recommendations" /\ call.out.raised = "none"
GenMetrics == call.args[2]
GenOptimal == OPTIMAL_RANGES[call.args[1]]
GenList == call.out.ret

\* The records of the returned list that carry an area name.
OfArea(area) == {i \in 1..Len(GenList) : GenList[i].area = area}

\* C5: a Smash Factor record is returned iff the smash factor is strictly
\* below the lower bound of the club's range; none at or above it, also
\* none above the upper bound.
C5_SmashOnlyBelow ==
    Generated =>
        ((OfArea("Smash Factor") # {}) <=>
            (GenMetrics["smash_factor"] < GenOptimal.smash_factor[1]))

\* A smash factor above the range, and no Smash Factor record.
C5_Witness ==
    /\ Generated
    /\ GenMetrics["smash_factor"] > GenOptimal.smash_factor[2]
    /\ OfArea("Smash Factor") = {}

\* C6: a Distance record is returned iff the carry distance is given, is
\* above 0 and is outside the club's range: "Below Expected" below the range,
\* "Above Expected" above it; none for a carry distance of 0 or none given.
C6_DistanceOnlyPositive ==
    Generated =>
        LET given == "carry_distance" \in DOMAIN GenMetrics
            low   == GenOptimal.carry_distance[1]
            high  == GenOptimal.carry_distance[2]
        IN  /\ (OfArea("Distance") # {}) <=>
                  /\ given
                  /\ GenMetrics["carry_distance"] > 0
                  /\ ~(low <= GenMetrics["carry_distance"]
                         /\ GenMetrics["carry_distance"] <= high)
            /\ \A i \in OfArea("Distance") :
                  /\ GenMetrics["carry_distance"] < low
                        => GenList[i].issue = "Below Expected"
                  /\ GenMetrics["carry_distance"] > high
                        => GenList[i].issue = "Above Expected"

\* The wedge with a carry distance of 0, below its range, and no Distance record.
C6_Witness ==
    /\ Generated
    /\ call.args[1] = "PW"
    /\ "carry_distance" \in DOMAIN GenMetrics
    /\ GenMetrics["carry_distance"] = 0
    /\ OfArea("Distance") = {}

C6_WitnessNotGiven ==
    /\ Generated
    /\ "carry_distance" \notin DOMAIN GenMetrics
    /\ OfArea("Distance") = {}

\* The place of an area in the fixed order of the rules.
AreaOrder == <<"Launch Angle", "Spin Rate", "Smash Factor", "Distance">>
AreaRank(area) == CHOOSE k \in 0..Len(AreaOrder) :
                     IF \E j \in 1..Len(AreaOrder) : AreaOrder[j] = area
                     THEN k > 0 /\ AreaOrder[k] = area
                     ELSE k = 0

\* C7: the areas of the returned list are a subsequence of Launch Angle,
\* Spin Rate, Smash Factor, Distance: each is one of the four and comes
\* strictly later in that order than the record before it.
C7_FixedOrder ==
    Generated =>
        /\ \A i \in 1..Len(GenList) : AreaRank(GenList[i].area) > 0
        /\ \A i \in 1..(Len(GenList) - 1) :
              AreaRank(GenList[i].area) < AreaRank(GenList[i + 1].area)

\* All four rules fired.
C7_Witness ==
    /\ Generated
    /\ Len(GenList) = 4

\* C8: calculate_smash_factor returns 0.0 and raises nothing whenever
\* club_speed <= 0, whatever the ball speed.
C8_NoDivisionByZero ==
    (call.fn = "calculate_smash_factor" /\ call.args[2] <= 0) =>
        /\ call.out.raised = "none"
        /\ call.out.ret = 0

\* A club speed of 0 with a ball speed that is not.
C8_Witness ==
    /\ call.fn = "calculate_smash_factor"
    /\ call.args[2] = 0
    /\ call.args[1] > 0
    /\ call.out = Returned(0)

C8_WitnessNegative ==
    /\ call.fn = "calculate_smash_factor"
    /\ call.args[2] < 0
    /\ call.args[1] > 0
    /\ call.out = Returned(0)

\* C9: for club_speed > 0 the result is ball_speed / club_speed rounded to
\* three decimals, that is, a thousandth nearest to the quotient: 0.0 for a
\* ball speed of 0, and 1.349 for 112 over 83.
C9_RoundedQuotient ==
    (call.fn = "calculate_smash_factor" /\ call.args[2] > 0) =>
        LET bs  == call.args[1]
            cs  == call.args[2]
            err == 1000 * bs - call.out.ret * cs
        IN  /\ call.out.raised = "none"
            /\ 2 * err <= cs /\ 2 * (0 - err) <= cs
            /\ bs = 0 => call.out.ret = 0
            /\ (bs = 112 /\ cs = 83) => call.out.ret = 1349

C9_Witness ==
    /\ call.fn = "calculate_smash_factor"
    /\ call.args = <<112, 83>>
    /\ call.out = Returned(1349)

\* C10: for launch angle and for spin rate alike: within the range no record
\* of that area is returned; outside it exactly one, "Too Low" with 4 fixes
\* below the lower bound and "Too High" with 4 fixes above the upper bound.
C10_LaunchAndSpinRecords ==
    Generated =>
        \A p \in {<<"launch_angle", "Launch Angle">>, <<"spin_rate", "Spin Rate">>} :
            LET value == GenMetrics[p[1]]
                low   == GenOptimal[p[1]][1]
                high  == GenOptimal[p[1]][2]
                recs  == OfArea(p[2])
            IN  /\ (low <= value /\ value <= high) => recs = {}
                /\ value < low =>
                      /\ Cardinality(recs) = 1
                      /\ \A i \in recs : /\ GenList[i].issue = "Too Low"
                                         /\ Len(GenList[i].fixes) = 4
                /\ value > high =>
                      /\ Cardinality(recs) = 1
                      /\ \A i \in recs : /\ GenList[i].issue = "Too High"
                                         /\ Len(GenList[i].fixes) = 4

\* The 7-iron with a launch angle of 18, below 20..24.
C10_Witness ==
    /\ Generated
    /\ call.args[1] = "7-iron"
    /\ GenMetrics["launch_angle"] = 18
    /\ \E i \in OfArea("Launch Angle") :
          GenList[i].issue = "Too Low" /\ Len(GenList[i].fixes) = 4

----------------------------------------------------------------------------
(* Properties of whole evaluations (SpecCalls).                            *)

\* An evaluation of main over given values, and one that returned.
Evaluated == call.fn = "main"
EvalDone == Evaluated /\ call.out.raised = "none"
EvalClub == call.args[1]

\* The value an evaluation checks for a metric.
EvalValue(m) ==
    CASE m = "ball_speed"     -> call.args[3]
      [] m = "launch_angle"   -> call.args[5]
      [] m = "spin_rate"      -> call.args[6]
      [] m = "smash_factor"   -> call.out.ret.smash_factor
      [] m = "carry_distance" -> call.args[4]

EvalInRange(m) ==
    /\ OPTIMAL_RANGES[EvalClub][m][1] <= EvalValue(m)
    /\ EvalValue(m) <= OPTIMAL_RANGES[EvalClub][m][2]

\* C11: whenever all five metrics lie within the club's ranges the evaluation
\* yields a score of 100, the tier "Excellent!" and an empty list; so for the
\* 7-iron with 83, 112, 22, 5500 and 150.
C11_AllWithinIsPerfect ==
    (EvalDone /\ \A m \in MetricNames : EvalInRange(m)) =>
        /\ call.out.ret.optimization_score = 100
        /\ call.out.ret.score_message = "Excellent!"
        /\ Len(call.out.ret.recommendations) = 0

C11_Witness ==
    /\ EvalDone
    /\ call.args[1] = "7-iron" /\ call.args[2] = 83 /\ call.args[3] = 112
    /\ call.args[4] = 150 /\ call.args[5] = 22 /\ call.args[6] = 5500
    /\ call.out.ret.smash_factor = 1349
    /\ call.out.ret.optimization_score = 100
    /\ Len(call.out.ret.recommendations) = 0

\* The calls that look a club up, and the eight clubs of the tables.
LooksUpClub ==
    call.fn \in {"display_club_info", "display_optimal_ranges",
                 "generate_recommendations", "main"}
FixedClubs ==
    {"3-iron", "4-iron", "5-iron", "6-iron", "7-iron", "8-iron", "9-iron", "PW"}

\* C12: a lookup of specs, ranges or recommendations, or an evaluation, for
\* a club that is none of the fixed eight ends with a KeyError and produces
\* no value: no other club stands in for it.
C12_UnknownClubFails ==
    (LooksUpClub /\ call.args[1] \notin FixedClubs) =>
        /\ call.out.raised = "KeyError"
        /\ "ret" \notin DOMAIN call.out

C12_Witness ==
    /\ call.fn = "generate_recommendations"
    /\ call.args[1] = "2-iron"
    /\ call.out = Raised("KeyError")

C12_WitnessMain ==
    /\ call.fn = "main"
    /\ call.args[1] = "2-iron"
    /\ call.out = Raised("KeyError")

\* The five metrics in the order of main's list of checks.
CheckOrder ==
    <<"ball_speed", "launch_angle", "spin_rate", "smash_factor", "carry_distance">>

Tiers == {"Excellent!", "Good", "Needs Work"}

\* C13: for a known club the evaluation never fails, whatever the numbers,
\* below the widgets' minima and far above their maxima included: the smash
\* factor, five statuses, the score, the tier and the list are all there, and
\* a value outside a range is classified below or above it.
C13_TotalOverNumbers ==
    (Evaluated /\ EvalClub \in FixedClubs) =>
        /\ call.out.raised = "none"
        /\ call.out.ret.smash_factor \in Int
        /\ Len(call.out.ret.checks) = 5
        /\ \A i \in 1..5 :
              /\ call.out.ret.checks[i] \in Statuses
              /\ EvalValue(CheckOrder[i]) < OPTIMAL_RANGES[EvalClub][CheckOrder[i]][1]
                    => call.out.ret.checks[i] = "warning_low"
              /\ EvalValue(CheckOrder[i]) > OPTIMAL_RANGES[EvalClub][CheckOrder[i]][2]
                    => call.out.ret.checks[i] = "warning_high"
        /\ call.out.ret.optimization_score \in 0..100
        /\ call.out.ret.score_message \in Tiers
        /\ Len(call.out.ret.recommendations) \in 0..4

\* A club speed of 0, a negative ball speed and a spin rate far above the
\* widget's maximum, evaluated all the same.
C13_Witness ==
    /\ EvalDone
    /\ call.args[2] = 0
    /\ call.args[3] < 0
    /\ call.args[6] > spin_rate_input.max_value
    /\ call.out.ret.smash_factor = 0
    /\ call.out.ret.checks[1] = "warning_low"
    /\ call.out.ret.checks[3] = "warning_high"

\* C14: for all eight clubs every stored range of the five metrics and the
\* swing-speed band have low <= high, and so has whatever a lookup of the
\* tables returns after any number of calls.
C14_RangesOrdered ==
    /\ \A c \in FixedClubs :
          /\ c \in DOMAIN OPTIMAL_RANGES /\ c \in DOMAIN CLUB_SPECS
          /\ \A m \in MetricNames : OPTIMAL_RANGES[c][m][1] <= OPTIMAL_RANGES[c][m][2]
          /\ CLUB_SPECS[c].swing_speed_range[1] <= CLUB_SPECS[c].swing_speed_range[2]
    /\ (call.fn = "display_optimal_ranges" /\ call.out.raised = "none") =>
          /\ DOMAIN call.out.ret = MetricNames
          /\ \A m \in MetricNames : call.out.ret[m][1] <= call.out.ret[m][2]
    /\ (call.fn = "display_club_info" /\ call.out.raised = "none") =>
          call.out.ret.swing_speed_range[1] <= call.out.ret.swing_speed_range[2]

\* The wedge's ranges looked up, the carry range 95..115 among them.
C14_Witness ==
    /\ call.fn = "display_optimal_ranges"
    /\ call.args[1] = "PW"
    /\ call.out.raised = "none"
    /\ call.out.ret.carry_distance = <<95, 115>>

----------------------------------------------------------------------------
(* Properties of successive runs of the dashboard (Spec).                  *)

\* Between two runs for the same club, check i turns from not within to
\* within and the other four stay as they were.
OneMoreWithin(i) ==
    /\ raised = "none" /\ raised' = "none"
    /\ selected_club' = selected_club
    /\ checks[i] # "success" /\ checks'[i] = "success"
    /\ \A j \in (1..5) \ {i} : (checks'[j] = "success") <=> (checks[j] = "success")

\* C15: the score is monotonic in the metrics in range: a run that differs
\* from the one before by one more metric within its range, the other four
\* as before, never shows a lower score.
C15_ScoreMonotonic ==
    [][(\E i \in 1..5 : OneMoreWithin(i)) =>
          optimization_score' >= optimization_score]_vars

\* A launch angle outside the range that one change of the widget brings
\* within it, raising the score by 20.
C15_Witness ==
    /\ raised = "none"
    /\ checks[2] # "success"
    /\ \E v \in Tried(launch_angle_input) :
          \E o \in {MainOutputs(selected_club, club_speed, ball_speed,
                                carry_distance, v, spin_rate, descent_angle)} :
              /\ v # launch_angle
              /\ o.raised = "none"
              /\ o.ret.checks[2] = "success"
              /\ \A j \in (1..5) \ {2} :
                    (o.ret.checks[j] = "success") <=> (checks[j] = "success")
              /\ o.ret.optimization_score = optimization_score + 20

\* Two successive runs that differ in the descent angle alone.
OnlyDescentChanged ==
    /\ descent_angle' # descent_angle
    /\ selected_club' = selected_club /\ club_speed' = club_speed
    /\ ball_speed' = ball_speed /\ carry_distance' = carry_distance
    /\ launch_angle' = launch_angle /\ spin_rate' = spin_rate

\* C16: the descent angle does not influence the evaluation: two runs with
\* the same club, speeds, launch angle, spin rate and carry distance and
\* different descent angles show the same smash factor, statuses, score,
\* tier and recommendations.
C16_DescentAngleUnused ==
    [][OnlyDescentChanged =>
          /\ smash_factor' = smash_factor
          /\ checks' = checks
          /\ success_count' = success_count
          /\ optimization_score' = optimization_score
          /\ score_message' = score_message
          /\ recommendations' = recommendations
          /\ raised' = raised]_vars

\* A run with another descent angle than the default and with
\* recommendations, which a further change of the descent angle leaves as
\* they are.
C16_Witness ==
    /\ raised = "none"
    /\ descent_angle # descent_angle_input.value
    /\ Len(recommendations) > 0
    /\ \E v \in Tried(descent_angle_input) :
          \E o \in {MainOutputs(selected_club, club_speed, ball_speed,
                                carry_distance, launch_angle, spin_rate, v)} :
              /\ v # descent_angle
              /\ o.raised = "none"
              /\ o.ret.checks = checks
              /\ o.ret.recommendations = recommendations
              /\ o.ret.optimization_score = optimization_score
              /\ o.ret.score_message = score_message

----------------------------------------------------------------------------
(* The list against the score (Spec).                                      *)

\* The place in main's list of checks of the metric a record's area names
\* (0 for an area that names none of them).
AreaCheck(area) ==
    CASE area = "Launch Angle" -> 2
      [] area = "Spin Rate"    -> 3
      [] area = "Smash Factor" -> 4
      [] area = "Distance"     -> 5
      [] OTHER                 -> 0

\* C17: every record of the list belongs to a metric of its own that the
\* score counts as not within: at most 4 records, at most one per area,
\* no more records than checks that failed, hence
\* score <= 100 - 20 * records; and a ball speed out of range with the other
\* four within yields no record.
C17_RecordsAreFailedChecks ==
    raised = "none" =>
        /\ \A i \in 1..Len(recommendations) :
              /\ AreaCheck(recommendations[i].area) \in 2..5
              /\ checks[AreaCheck(recommendations[i].area)] # "success"
        /\ \A i, j \in 1..Len(recommendations) :
              recommendations[i].area = recommendations[j].area => i = j
        /\ Len(recommendations) <= 4
        /\ Len(recommendations) <= 5 - success_count
        /\ optimization_score <= 100 - 20 * Len(recommendations)
        /\ (checks[1] # "success" /\ \A k \in 2..5 : checks[k] = "success")
              => Len(recommendations) = 0

\* All four rules fired and the ball speed is out of range too: score 0.
C17_Witness ==
    /\ raised = "none"
    /\ Len(recommendations) = 4
    /\ success_count = 0
    /\ optimization_score = 0

\* The ball speed alone out of range: score 80 and no record.
C17_WitnessBallSpeedAlone ==
    /\ raised = "none"
    /\ checks[1] # "success"
    /\ \A k \in 2..5 : checks[k] = "success"
    /\ Len(recommendations) = 0

====
